---- MODULE Spec2Model ----
(***************************************************************************)
(* Model of marselester/capacity.                                          *)
(*                                                                         *)
(*   Spec       the proxy (cmd/proxy/main.go): request handlers running    *)
(*              concurrently around the lock-free Quota, the AIMD hooks    *)
(*              of the reverse proxy and the increase limiter.             *)
(*   SpecQuota  the Quota type on its own: callers invoking Receive,       *)
(*              Release, Inc and Backoff(p) in any order.                  *)
(*   SpecOrigin the origin (cmd/origin): request handlers submitting jobs  *)
(*              to the jobs channel, and the workers that range over it.   *)
(*   SpecSeq    the Quota type with its methods called one at a time.      *)
(*   SpecMutex  the mutex-based Quota of the earlier proxy (the third       *)
(*              program of cmd/client/main.go), its methods called in any  *)
(*              order.                                                     *)
(*   SpecLower  the Quota under a run of overload outcomes: concurrent    *)
(*              Backoff(0.75) calls and nothing else.                      *)
(*   SpecQuotaLive, SpecOriginLive                                         *)
(*              SpecQuota and SpecOrigin with every goroutine scheduled    *)
(*              (weak fairness), the latter with clients that time out.    *)
(*                                                                         *)
(* Every access to shared memory (an atomic load, add or compare-and-swap, *)
(* a gauge update, a limiter call) is one step of the handler that makes   *)
(* it; purely local computation is folded into the step that precedes it.  *)
(***************************************************************************)
EXTENDS Integers, Sequences, FiniteSets, TLC

\* Number of request-handler goroutines that may run at the same time.
NumProcs == 2
\* Largest value of the -quota flag explored.
MaxQuota == 4
\* Total number of requests (calls, in SpecQuota) issued in one behaviour.
MaxRequests == 2
\* Clock ticks per limiter interval (one second): the clock's resolution.
TicksPerSecond == 1

\* Number of origin request-handler goroutines that may run at the same time.
NumHandlers == 3
\* Largest value of the origin's -worker flag explored.
MaxWorkers == 2
\* Largest value of the origin's -queue flag explored.
MaxQueue == 2
\* Total number of requests the origin receives in one behaviour.
MaxJobs == 3
\* Total number of Receive, Inc and Backoff calls made one at a time (SpecSeq).
MaxCalls == 3
\* Largest initial ceiling explored under a run of overload outcomes (SpecLower).
MaxCeiling == 8
\* Total number of Backoff(0.75) calls made in one such run (SpecLower).
MaxLowers == 5

\* inflight.Backoff(0.75): the fraction, as BackoffNum / FracDen.
BackoffNum == 3
FracDen == 4
\* rate.NewLimiter(rate.Limit(1), 1): the burst, in tokens.
Burst == 1

StatusOK == 200
StatusTooManyRequests == 429
StatusBadGateway == 502

Procs == 1..NumProcs
Handlers == 1..NumHandlers
\* The statuses the origin answers with (cmd/origin): 200, or 429 when it is
\* overloaded. The proxy treats every status other than 200 alike.
BackendStatuses == {StatusOK, StatusTooManyRequests}

Min(a, b) == IF a < b THEN a ELSE b

VARIABLES
  used,      \* Quota.used
  max,       \* Quota.max
  current,   \* Quota.current, the proxy_inflight_requests gauge
  target,    \* Quota.target, the proxy_target_inflight_requests gauge
  quota,     \* the -quota flag
  adaptive,  \* the -adaptive flag
  tokens,    \* incLimiter's tokens, in 1/TicksPerSecond of a token
  pc,        \* each handler's position
  usedRead,  \* Receive's local `used`
  oldMax,    \* Backoff's local `oldMax`
  frac,      \* Backoff's argument p, as frac / FracDen
  cont,      \* where the quota operation in progress returns to
  req,       \* history: what has happened to each handler's request so far
  last,      \* history: the same, of the request that ended last
  started,   \* history: number of requests (calls, in SpecQuota) started
  leaked,    \* history: granted requests whose handler ended without Release
  win,       \* history: the limiter's current throttling window
  hist,      \* history: the Inc and Backoff calls made (SpecQuota)
  workerNum, \* origin: the -worker flag
  queueSize, \* origin: the -queue flag, the capacity of the jobs channel
  jobs,      \* origin: the jobs channel's buffer
  recvq,     \* origin: the workers blocked receiving from jobs, in order
  wpc,       \* origin: each worker's position
  wjob,      \* origin: the job each worker has in hand (0: none)
  hpc,       \* origin: each handler's position
  hjob,      \* origin: each handler's job (0: none)
  status,    \* origin: the status each handler wrote last (0: none)
  submitted, \* origin history: number of jobs made so far; the next job's id
  sub,       \* origin history: the last send on jobs, and what it found
  taken,     \* origin history: the jobs received from jobs, in order, each
             \* with the number of jobs it left behind in the buffer
  gone       \* origin: whether the client of each handler's request has
             \* timed out and stopped waiting for the response

proxyVars == <<used, max, current, target, quota, adaptive, tokens, pc,
               usedRead, oldMax, frac, cont, req, last, started, leaked, win,
               hist>>
originVars == <<workerNum, queueSize, jobs, recvq, wpc, wjob, hpc, hjob,
                status, submitted, sub, taken, gone>>
vars == <<proxyVars, originVars>>

quotaVars == <<used, max, current, target>>
flagVars == <<quota, adaptive>>
localVars == <<usedRead, oldMax, frac, cont>>

\* The fractions p = f / FracDen that Backoff is called with in SpecQuota:
\* 0, 1/4, 1/2, 3/4 and 1.
Fracs == 0..FracDen

\* A request about which nothing has happened yet.
NewRequest ==
  [ret |-> "none", outcome |-> "none", bstatus |-> 0,
   resp |-> 0, lowers |-> 0, raises |-> 0, token |-> FALSE, acquires |-> 0,
   releases |-> 0]

\* No window: the bucket is full and no success has consulted it.
NoWindow ==
  [age |-> TicksPerSecond, succ |-> 0, grants |-> 0, base |-> 0,
   clean |-> FALSE, proc |-> 0, applied |-> FALSE]

\* The window once something other than its own raise has moved the ceiling.
Dirty(w) == [w EXCEPT !.clean = FALSE, !.base = 0, !.proc = 0, !.applied = FALSE]

\* The history of the Inc and Backoff calls: how many were made, which Backoff
\* in progress has had a compare-and-swap fail (retried), whose loaded value a
\* write has followed (stale), and what the last sequential Receive saw.
NoCalls ==
  [incs |-> 0, lowers |-> [f \in Fracs |-> 0],
   retried |-> [p \in Procs |-> FALSE],
   stale |-> [p \in Procs |-> FALSE],
   call |-> [proc |-> 0, used |-> 0, max |-> 0]]

\* The history after caller p's write to max took effect: every other caller
\* that has loaded max for a compare-and-swap not yet made now holds a value
\* that a write has followed.
Written(p) ==
  [hist EXCEPT !.stale = [q \in Procs |->
                            IF q = p THEN FALSE
                            ELSE hist.stale[q] \/ pc[q] = "bo_cas"]]

\* Mutant: the product is truncated (int64(p * float64(m))) instead of being
\* rounded up.
CeilMulTruncates(n, m) == (n * m) \div FracDen

\* math.Ceil(p * float64(m)) for p = n / FracDen, which float64 computes
\* exactly for these dyadic fractions (math.Ceil rounds towards +Inf).
CeilMul(n, m) ==
  IF n * m >= 0 THEN (n * m + FracDen - 1) \div FracDen
  ELSE -((-(n * m)) \div FracDen)

\* NewQuota(*quota, ...): max is set, used is zero, the gauges are untouched.
NewQuota(n) ==
  /\ used = 0
  /\ max = n
  /\ current = 0
  /\ target = 0

\* No send on jobs has been made yet.
NoSubmit == [job |-> 0, by |-> 0, full |-> FALSE, waiting |-> 0]

\* cmd/origin's main up to the start of the workers.
InitOrigin ==
  /\ workerNum \in 1..MaxWorkers
  /\ queueSize \in 0..MaxQueue
  /\ jobs = <<>>
  /\ recvq = <<>>
  /\ wpc = [w \in 1..MaxWorkers |-> IF w <= workerNum THEN "range" ELSE "none"]
  /\ wjob = [w \in 1..MaxWorkers |-> 0]
  /\ hpc = [h \in Handlers |-> "idle"]
  /\ hjob = [h \in Handlers |-> 0]
  /\ status = [h \in Handlers |-> 0]
  /\ submitted = 0
  /\ sub = NoSubmit
  /\ taken = <<>>
  /\ gone = [h \in Handlers |-> FALSE]

\* cmd/proxy's main up to http.ListenAndServe.
InitProxy ==
  /\ quota \in 0..MaxQuota
  /\ adaptive \in BOOLEAN
  /\ NewQuota(quota)
  /\ tokens = Burst * TicksPerSecond
  /\ pc = [p \in Procs |-> "idle"]
  /\ usedRead = [p \in Procs |-> 0]
  /\ oldMax = [p \in Procs |-> 0]
  /\ frac = [p \in Procs |-> 0]
  /\ cont = [p \in Procs |-> "idle"]
  /\ req = [p \in Procs |-> NewRequest]
  /\ last = NewRequest
  /\ started = 0
  /\ leaked = 0
  /\ win = NoWindow
  /\ hist = NoCalls

\* One origin and one proxy, each with the flags of a run of its own.
OneOrigin == workerNum = 1 /\ queueSize = 0
OneProxy == quota = 0 /\ ~adaptive

Init == InitProxy /\ InitOrigin /\ OneOrigin

InitWorkerPool == InitOrigin /\ InitProxy /\ OneProxy

Goto(p, label) == pc' = [pc EXCEPT ![p] = label]

\* The quota operation returns to its caller.
Return(p) ==
  /\ pc' = [pc EXCEPT ![p] = cont[p]]
  /\ cont' = [cont EXCEPT ![p] = "idle"]

\* The handler returns: its request has ended, with record r.
Finish(p, r) ==
  /\ pc' = [pc EXCEPT ![p] = "idle"]
  /\ last' = r
  /\ req' = [req EXCEPT ![p] = NewRequest]

-----------------------------------------------------------------------------
\* Quota.Receive

\* used := atomic.LoadInt64(&q.used)
ReceiveLoadUsed(p) ==
  /\ pc[p] = "rcv_used"
  /\ usedRead' = [usedRead EXCEPT ![p] = used]
  /\ Goto(p, "rcv_max")
  /\ UNCHANGED <<quotaVars, flagVars, tokens, oldMax, frac, cont, req, last,
                 started, leaked, win, hist>>
  /\ UNCHANGED originVars

\* Mutant: the comparison lets a caller in whenever used differs from max.
AvailableNotEqual(u, m) == u # m

\* Mutant: the comparison lets a caller in when used = max.
AvailableOffByOne(u, m) == u <= m

\* available := used < max
Available(u, m) == u < m

\* max := atomic.LoadInt64(&q.max); available := used < max;
\* if !available { return false }
ReceiveLoadMax(p, denyTo) ==
  /\ pc[p] = "rcv_max"
  /\ usedRead' = [usedRead EXCEPT ![p] = 0]
  /\ IF Available(usedRead[p], max)
       THEN /\ Goto(p, "rcv_add")
            /\ UNCHANGED <<req, cont>>
       ELSE /\ Goto(p, denyTo)
            /\ req' = [req EXCEPT ![p].ret = "denied"]
            /\ cont' = [cont EXCEPT ![p] = "idle"]
  /\ UNCHANGED <<quotaVars, flagVars, tokens, oldMax, frac, last, started,
                 leaked, win, hist>>
  /\ UNCHANGED originVars

\* atomic.AddInt64(&q.used, 1)
ReceiveAdd(p) ==
  /\ pc[p] = "rcv_add"
  /\ used' = used + 1
  /\ req' = [req EXCEPT ![p].acquires = @ + 1]
  /\ Goto(p, "rcv_gauge")
  /\ UNCHANGED <<max, current, target, flagVars, tokens, localVars, last,
                 started, leaked, win, hist>>
  /\ UNCHANGED originVars

\* q.current.Inc(); return true
ReceiveGauge(p) ==
  /\ pc[p] = "rcv_gauge"
  /\ current' = current + 1
  /\ req' = [req EXCEPT ![p].ret = "granted"]
  /\ Return(p)
  /\ UNCHANGED <<used, max, target, flagVars, tokens, usedRead, oldMax, frac,
                 last, started, leaked, win, hist>>
  /\ UNCHANGED originVars

\* Mutant: Release adds one to used instead of taking one off.
ReleaseAddWrongSign(p) ==
  /\ pc[p] = "release"
  /\ used' = used + 1
  /\ req' = [req EXCEPT ![p].releases = @ + 1]
  /\ Goto(p, "rel_gauge")
  /\ UNCHANGED <<max, current, target, flagVars, tokens, localVars, last,
                 started, leaked, win, hist>>
  /\ UNCHANGED originVars

\* Quota.Release: atomic.AddInt64(&q.used, -1)
ReleaseAdd(p) ==
  /\ pc[p] = "release"
  /\ used' = used - 1
  /\ req' = [req EXCEPT ![p].releases = @ + 1]
  /\ Goto(p, "rel_gauge")
  /\ UNCHANGED <<max, current, target, flagVars, tokens, localVars, last,
                 started, leaked, win, hist>>
  /\ UNCHANGED originVars

\* Quota.Release: q.current.Dec(). Release is the last thing its caller does.
ReleaseGauge(p) ==
  /\ pc[p] = "rel_gauge"
  /\ current' = current - 1
  /\ Finish(p, req[p])
  /\ UNCHANGED <<used, max, target, flagVars, tokens, localVars, started,
                 leaked, win, hist>>
  /\ UNCHANGED originVars

\* Mutant: Inc takes one off max instead of adding one.
IncAddWrongSign(p) ==
  /\ pc[p] = "inc_add"
  /\ max' = max - 1
  /\ req' = [req EXCEPT ![p].raises = @ + 1]
  /\ win' = Dirty(win)
  /\ hist' = Written(p)
  /\ Goto(p, "inc_gauge")
  /\ UNCHANGED <<used, current, target, flagVars, tokens, localVars, last,
                 started, leaked>>
  /\ UNCHANGED originVars

\* Quota.Inc: atomic.AddInt64(&q.max, 1)
IncAdd(p) ==
  /\ pc[p] = "inc_add"
  /\ max' = max + 1
  /\ req' = [req EXCEPT ![p].raises = @ + 1]
  /\ win' = IF win.clean /\ p = win.proc /\ ~win.applied
              THEN [win EXCEPT !.applied = TRUE]
              ELSE Dirty(win)
  /\ hist' = Written(p)
  /\ Goto(p, "inc_gauge")
  /\ UNCHANGED <<used, current, target, flagVars, tokens, localVars, last,
                 started, leaked>>
  /\ UNCHANGED originVars

\* Mutant: the raise is followed by a Backoff(0.75) for the same request.
IncGaugeThenBackoff(p) ==
  /\ pc[p] = "inc_gauge"
  /\ target' = target + 1
  /\ frac' = [frac EXCEPT ![p] = BackoffNum]
  /\ Goto(p, "bo_load")
  /\ UNCHANGED <<used, max, current, flagVars, tokens, usedRead, oldMax, cont,
                 req, last, started, leaked, win, hist>>
  /\ UNCHANGED originVars

\* Quota.Inc: q.target.Inc()
IncGauge(p) ==
  /\ pc[p] = "inc_gauge"
  /\ target' = target + 1
  /\ Return(p)
  /\ UNCHANGED <<used, max, current, flagVars, tokens, usedRead, oldMax, frac,
                 req, last, started, leaked, win, hist>>
  /\ UNCHANGED originVars

\* Quota.Backoff: oldMax := atomic.LoadInt64(&q.max)
BackoffLoad(p) ==
  /\ pc[p] = "bo_load"
  /\ oldMax' = [oldMax EXCEPT ![p] = max]
  /\ Goto(p, "bo_cas")
  /\ UNCHANGED <<quotaVars, flagVars, tokens, usedRead, frac, cont, req, last,
                 started, leaked, win, hist>>
  /\ UNCHANGED originVars

\* Mutant: Backoff stores the new ceiling without comparing: a plain
\* atomic.StoreInt64 in place of the compare-and-swap loop.
BackoffStore(p) ==
  /\ pc[p] = "bo_cas"
  /\ max' = CeilMul(frac[p], oldMax[p])
  /\ req' = [req EXCEPT ![p].lowers = @ + 1]
  /\ win' = Dirty(win)
  /\ hist' = Written(p)
  /\ Goto(p, "bo_gauge")
  /\ UNCHANGED <<used, current, target, flagVars, tokens, localVars, last,
                 started, leaked>>
  /\ UNCHANGED originVars

\* Mutant: Backoff also takes back the slots above the new ceiling.
BackoffCASRevokes(p) ==
  /\ pc[p] = "bo_cas"
  /\ IF max = oldMax[p]
       THEN /\ max' = CeilMul(frac[p], oldMax[p])
            /\ used' = Min(used, CeilMul(frac[p], oldMax[p]))
            /\ req' = [req EXCEPT ![p].lowers = @ + 1]
            /\ win' = Dirty(win)
            /\ hist' = Written(p)
            /\ Goto(p, "bo_gauge")
            /\ UNCHANGED oldMax
       ELSE /\ oldMax' = [oldMax EXCEPT ![p] = 0]
            /\ hist' = [hist EXCEPT !.retried[p] = TRUE, !.stale[p] = FALSE]
            /\ Goto(p, "bo_load")
            /\ UNCHANGED <<used, max, req, win>>
  /\ UNCHANGED <<current, target, flagVars, tokens, usedRead, frac, cont,
                 last, started, leaked>>
  /\ UNCHANGED originVars

\* Mutant: when the compare-and-swap fails, Backoff tries it again with the
\* value it loaded before, without loading max anew.
BackoffCASNoReload(p) ==
  /\ pc[p] = "bo_cas"
  /\ IF max = oldMax[p]
       THEN /\ max' = CeilMul(frac[p], oldMax[p])
            /\ req' = [req EXCEPT ![p].lowers = @ + 1]
            /\ win' = Dirty(win)
            /\ hist' = Written(p)
            /\ Goto(p, "bo_gauge")
       ELSE /\ hist' = [hist EXCEPT !.retried[p] = TRUE]
            /\ UNCHANGED <<max, req, win, pc>>
  /\ UNCHANGED <<used, current, target, flagVars, tokens, usedRead, oldMax,
                 frac, cont, last, started, leaked>>
  /\ UNCHANGED originVars

\* Quota.Backoff: newMax := math.Ceil(p * float64(oldMax));
\* atomic.CompareAndSwapInt64(&q.max, oldMax, int64(newMax)), and the loop
\* back to the load when the swap fails.
BackoffCAS(p) ==
  /\ pc[p] = "bo_cas"
  /\ IF max = oldMax[p]
       THEN /\ max' = CeilMul(frac[p], oldMax[p])
            /\ req' = [req EXCEPT ![p].lowers = @ + 1]
            /\ win' = Dirty(win)
            /\ hist' = Written(p)
            /\ Goto(p, "bo_gauge")
            /\ UNCHANGED oldMax
       ELSE /\ oldMax' = [oldMax EXCEPT ![p] = 0]
            /\ hist' = [hist EXCEPT !.retried[p] = TRUE, !.stale[p] = FALSE]
            /\ Goto(p, "bo_load")
            /\ UNCHANGED <<max, req, win>>
  /\ UNCHANGED <<used, current, target, flagVars, tokens, usedRead, frac, cont,
                 last, started, leaked>>
  /\ UNCHANGED originVars

\* Quota.Backoff: q.target.Set(newMax); break
BackoffGauge(p) ==
  /\ pc[p] = "bo_gauge"
  /\ target' = CeilMul(frac[p], oldMax[p])
  /\ oldMax' = [oldMax EXCEPT ![p] = 0]
  /\ frac' = [frac EXCEPT ![p] = 0]
  /\ hist' = [hist EXCEPT !.retried[p] = FALSE]
  /\ Return(p)
  /\ UNCHANGED <<used, max, current, flagVars, tokens, usedRead, req, last,
                 started, leaked, win>>
  /\ UNCHANGED originVars

-----------------------------------------------------------------------------
\* The proxy's request handler and the reverse proxy's hooks.

\* http.HandleFunc("/", ...): a request arrives and calls inflight.Receive().
HandleRequest(p) ==
  /\ pc[p] = "idle"
  /\ started < MaxRequests
  /\ started' = started + 1
  /\ cont' = [cont EXCEPT ![p] = "forward"]
  /\ Goto(p, "rcv_used")
  /\ UNCHANGED <<quotaVars, flagVars, tokens, usedRead, oldMax, frac, req,
                 last, leaked, win, hist>>
  /\ UNCHANGED originVars

\* Mutant: the handler releases the slot on the denied path too.
RejectAndRelease(p) ==
  /\ pc[p] = "reject"
  /\ req' = [req EXCEPT ![p].resp = StatusTooManyRequests]
  /\ Goto(p, "release")
  /\ UNCHANGED <<quotaVars, flagVars, tokens, localVars, last, started,
                 leaked, win, hist>>
  /\ UNCHANGED originVars

\* Receive returned false: rw.WriteHeader(http.StatusTooManyRequests).
Reject(p) ==
  /\ pc[p] = "reject"
  /\ Finish(p, [req[p] EXCEPT !.resp = StatusTooManyRequests])
  /\ UNCHANGED <<quotaVars, flagVars, tokens, localVars, started, leaked, win,
                 hist>>
  /\ UNCHANGED originVars

\* Mutant: the limiter lets every call through.
AllowAlways == TRUE

\* incLimiter.Allow(): whether a whole token is there.
Allow == tokens >= TicksPerSecond

\* The window a consultation of the limiter falls in: the one open, or a new
\* one when none is.
Consult(p, granted) ==
  LET g == IF granted THEN 1 ELSE 0
      who == IF granted THEN p ELSE 0
  IN  IF win.age >= TicksPerSecond
        THEN [age |-> 0, succ |-> 1, grants |-> g, base |-> max,
              clean |-> TRUE, proc |-> who, applied |-> FALSE]
        ELSE [win EXCEPT !.succ = @ + 1, !.grants = @ + g,
                         !.proc = IF granted /\ win.clean THEN p ELSE @]

\* proxy.ServeHTTP got a response with status s: proxy.ModifyResponse.
ModifyResponse(p, s) ==
  /\ pc[p] = "forward"
  /\ IF ~adaptive
       THEN /\ Goto(p, "copy")
            /\ req' = [req EXCEPT ![p].bstatus = s,
                         ![p].outcome = IF s = StatusOK THEN "ok" ELSE "overload"]
            /\ UNCHANGED <<tokens, frac, cont, win>>
       ELSE IF s # StatusOK
         THEN /\ frac' = [frac EXCEPT ![p] = BackoffNum]
              /\ cont' = [cont EXCEPT ![p] = "copy"]
              /\ Goto(p, "bo_load")
              /\ req' = [req EXCEPT ![p].bstatus = s,
                           ![p].outcome = "overload"]
              /\ UNCHANGED <<tokens, win>>
         ELSE /\ tokens' = IF Allow THEN tokens - TicksPerSecond ELSE tokens
              /\ win' = Consult(p, Allow)
              /\ IF Allow
                   THEN /\ cont' = [cont EXCEPT ![p] = "copy"]
                        /\ Goto(p, "inc_add")
                   ELSE /\ Goto(p, "copy")
                        /\ UNCHANGED cont
              /\ req' = [req EXCEPT ![p].bstatus = s,
                           ![p].outcome = "ok", ![p].token = Allow]
              /\ UNCHANGED frac
  /\ UNCHANGED <<quotaVars, flagVars, usedRead, oldMax, last, started, leaked,
                 hist>>
  /\ UNCHANGED originVars

\* Mutant: on a transport failure the slot is given back first and the
\* ceiling is lowered afterwards.
ErrorHandlerReleaseFirst(p) ==
  /\ pc[p] = "forward"
  /\ used' = used - 1
  /\ req' = [req EXCEPT ![p].outcome = "error",
               ![p].resp = StatusBadGateway,
               ![p].releases = @ + 1]
  /\ IF adaptive
       THEN /\ frac' = [frac EXCEPT ![p] = BackoffNum]
            /\ cont' = [cont EXCEPT ![p] = "rel_gauge"]
            /\ Goto(p, "bo_load")
       ELSE /\ Goto(p, "rel_gauge")
            /\ UNCHANGED <<frac, cont>>
  /\ UNCHANGED <<max, current, target, flagVars, tokens, usedRead, oldMax,
                 last, started, leaked, win, hist>>
  /\ UNCHANGED originVars

\* Mutant: the error hook backs off whatever the -adaptive flag says.
ErrorHandlerAlwaysBackoff(p) ==
  /\ pc[p] = "forward"
  /\ req' = [req EXCEPT ![p].outcome = "error", ![p].resp = StatusBadGateway]
  /\ frac' = [frac EXCEPT ![p] = BackoffNum]
  /\ cont' = [cont EXCEPT ![p] = "release"]
  /\ Goto(p, "bo_load")
  /\ UNCHANGED <<quotaVars, flagVars, tokens, usedRead, oldMax, last, started,
                 leaked, win, hist>>
  /\ UNCHANGED originVars

\* Mutant: the error hook never backs off.
ErrorHandlerNoBackoff(p) ==
  /\ pc[p] = "forward"
  /\ req' = [req EXCEPT ![p].outcome = "error", ![p].resp = StatusBadGateway]
  /\ Goto(p, "release")
  /\ UNCHANGED <<quotaVars, flagVars, tokens, localVars, last, started,
                 leaked, win, hist>>
  /\ UNCHANGED originVars

\* proxy.ServeHTTP failed to reach the origin: proxy.ErrorHandler.
ErrorHandler(p) ==
  /\ pc[p] = "forward"
  /\ req' = [req EXCEPT ![p].outcome = "error",
               ![p].resp = StatusBadGateway]
  /\ IF adaptive
       THEN /\ frac' = [frac EXCEPT ![p] = BackoffNum]
            /\ cont' = [cont EXCEPT ![p] = "release"]
            /\ Goto(p, "bo_load")
       ELSE /\ Goto(p, "release")
            /\ UNCHANGED <<frac, cont>>
  /\ UNCHANGED <<quotaVars, flagVars, tokens, usedRead, oldMax, last, started,
                 leaked, win, hist>>
  /\ UNCHANGED originVars

\* Mutant: the proxy answers 200 whatever the origin's status was.
CopyResponseAlwaysOK(p) ==
  /\ pc[p] = "copy"
  /\ req' = [req EXCEPT ![p].resp = StatusOK]
  /\ Goto(p, "release")
  /\ UNCHANGED <<quotaVars, flagVars, tokens, localVars, last, started, leaked,
                 win, hist>>
  /\ UNCHANGED originVars

\* proxy.ServeHTTP writes the origin's status, copies the body and returns;
\* the handler goes on to inflight.Release().
CopyResponse(p) ==
  /\ pc[p] = "copy"
  /\ req' = [req EXCEPT ![p].resp = req[p].bstatus]
  /\ Goto(p, "release")
  /\ UNCHANGED <<quotaVars, flagVars, tokens, localVars, last, started, leaked,
                 win, hist>>
  /\ UNCHANGED originVars

\* The copy of the body fails after the header was written: ReverseProxy
\* panics with http.ErrAbortHandler, the handler unwinds past the Release
\* that follows proxy.ServeHTTP (there is no defer), and net/http recovers.
AbortHandler(p) ==
  /\ pc[p] = "copy"
  /\ Finish(p, [req[p] EXCEPT !.resp = req[p].bstatus])
  /\ leaked' = leaked + 1
  /\ UNCHANGED <<quotaVars, flagVars, tokens, localVars, started, win, hist>>
  /\ UNCHANGED originVars

\* Time passes: the limiter gains 1/TicksPerSecond of a token, up to its burst.
Tick ==
  /\ tokens' = Min(Burst * TicksPerSecond, tokens + 1)
  /\ win' = [win EXCEPT !.age = Min(TicksPerSecond, @ + 1)]
  /\ UNCHANGED <<quotaVars, flagVars, pc, localVars, req, last, started,
                 leaked, hist>>
  /\ UNCHANGED originVars

Next ==
  \/ \E p \in Procs : HandleRequest(p)
  \/ \E p \in Procs : ReceiveLoadUsed(p)
  \/ \E p \in Procs : ReceiveLoadMax(p, "reject")
  \/ \E p \in Procs : ReceiveAdd(p)
  \/ \E p \in Procs : ReceiveGauge(p)
  \/ \E p \in Procs : Reject(p)
  \/ \E p \in Procs : \E s \in BackendStatuses : ModifyResponse(p, s)
  \/ \E p \in Procs : ErrorHandler(p)
  \/ \E p \in Procs : IncAdd(p)
  \/ \E p \in Procs : IncGauge(p)
  \/ \E p \in Procs : BackoffLoad(p)
  \/ \E p \in Procs : BackoffCAS(p)
  \/ \E p \in Procs : BackoffGauge(p)
  \/ \E p \in Procs : CopyResponse(p)
  \/ \E p \in Procs : AbortHandler(p)
  \/ \E p \in Procs : ReleaseAdd(p)
  \/ \E p \in Procs : ReleaseGauge(p)
  \/ Tick

Spec == Init /\ [][Next]_vars

-----------------------------------------------------------------------------
\* The Quota type on its own: callers invoking its four methods in any
\* order, one Release per Receive that returned true.

\* q.Receive(), by a caller that holds no slot.
CallReceive(p) ==
  /\ pc[p] = "idle"
  /\ started < MaxRequests
  /\ started' = started + 1
  /\ cont' = [cont EXCEPT ![p] = "held"]
  /\ Goto(p, "rcv_used")
  /\ UNCHANGED <<quotaVars, flagVars, tokens, usedRead, oldMax, frac, req,
                 last, leaked, win, hist>>
  /\ UNCHANGED originVars

\* q.Release(), by a caller whose Receive returned true.
CallRelease(p) ==
  /\ pc[p] = "held"
  /\ Goto(p, "release")
  /\ UNCHANGED <<quotaVars, flagVars, tokens, localVars, req, last, started,
                 leaked, win, hist>>
  /\ UNCHANGED originVars

\* q.Inc()
CallInc(p) ==
  /\ pc[p] \in {"idle", "held"}
  /\ started < MaxRequests
  /\ started' = started + 1
  /\ hist' = [hist EXCEPT !.incs = @ + 1]
  /\ cont' = [cont EXCEPT ![p] = pc[p]]
  /\ Goto(p, "inc_add")
  /\ UNCHANGED <<quotaVars, flagVars, tokens, usedRead, oldMax, frac, req,
                 last, leaked, win>>
  /\ UNCHANGED originVars

\* q.Backoff(f / FracDen)
CallBackoff(p, f) ==
  /\ pc[p] \in {"idle", "held"}
  /\ started < MaxRequests
  /\ started' = started + 1
  /\ hist' = [hist EXCEPT !.lowers[f] = @ + 1]
  /\ frac' = [frac EXCEPT ![p] = f]
  /\ cont' = [cont EXCEPT ![p] = pc[p]]
  /\ Goto(p, "bo_load")
  /\ UNCHANGED <<quotaVars, flagVars, tokens, usedRead, oldMax, req, last,
                 leaked, win>>
  /\ UNCHANGED originVars

InitQuota == Init /\ ~adaptive

NextQuota ==
  \/ \E p \in Procs : CallReceive(p)
  \/ \E p \in Procs : CallRelease(p)
  \/ \E p \in Procs : CallInc(p)
  \/ \E p \in Procs : \E f \in Fracs : CallBackoff(p, f)
  \/ \E p \in Procs : ReceiveLoadUsed(p)
  \/ \E p \in Procs : ReceiveLoadMax(p, "idle")
  \/ \E p \in Procs : ReceiveAdd(p)
  \/ \E p \in Procs : ReceiveGauge(p)
  \/ \E p \in Procs : ReleaseAdd(p)
  \/ \E p \in Procs : ReleaseGauge(p)
  \/ \E p \in Procs : IncAdd(p)
  \/ \E p \in Procs : IncGauge(p)
  \/ \E p \in Procs : BackoffLoad(p)
  \/ \E p \in Procs : BackoffCAS(p)
  \/ \E p \in Procs : BackoffGauge(p)

SpecQuota == InitQuota /\ [][NextQuota]_vars

\* The Go scheduler runs every goroutine that can run: a caller inside
\* Backoff goes on to its next load or compare-and-swap.
FairQuota ==
  \A p \in Procs : WF_vars(BackoffLoad(p)) /\ WF_vars(BackoffCAS(p))

SpecQuotaLive == InitQuota /\ [][NextQuota]_vars /\ FairQuota

-----------------------------------------------------------------------------
\* The Quota type used by one caller at a time: a method is called only when
\* no other call is in progress, so no two operations overlap.

\* No quota operation is in progress.
Quiet == \A q \in Procs : pc[q] \in {"idle", "held"}

\* q.Receive(), by a caller that holds no slot; the history keeps what used
\* and max were at the call.
SeqReceive(p) ==
  /\ Quiet
  /\ pc[p] = "idle"
  /\ started < MaxCalls
  /\ started' = started + 1
  /\ hist' = [hist EXCEPT !.call = [proc |-> p, used |-> used, max |-> max]]
  /\ cont' = [cont EXCEPT ![p] = "held"]
  /\ Goto(p, "rcv_used")
  /\ UNCHANGED <<quotaVars, flagVars, tokens, usedRead, oldMax, frac, req,
                 last, leaked, win>>
  /\ UNCHANGED originVars

\* q.Release(), by a caller whose Receive returned true.
SeqRelease(p) ==
  /\ Quiet
  /\ pc[p] = "held"
  /\ Goto(p, "release")
  /\ UNCHANGED <<quotaVars, flagVars, tokens, localVars, req, last, started,
                 leaked, win, hist>>
  /\ UNCHANGED originVars

\* q.Inc()
SeqInc(p) ==
  /\ Quiet
  /\ started < MaxCalls
  /\ started' = started + 1
  /\ hist' = [hist EXCEPT !.incs = @ + 1]
  /\ cont' = [cont EXCEPT ![p] = pc[p]]
  /\ Goto(p, "inc_add")
  /\ UNCHANGED <<quotaVars, flagVars, tokens, usedRead, oldMax, frac, req,
                 last, leaked, win>>
  /\ UNCHANGED originVars

\* q.Backoff(f / FracDen)
SeqBackoff(p, f) ==
  /\ Quiet
  /\ started < MaxCalls
  /\ started' = started + 1
  /\ hist' = [hist EXCEPT !.lowers[f] = @ + 1]
  /\ frac' = [frac EXCEPT ![p] = f]
  /\ cont' = [cont EXCEPT ![p] = pc[p]]
  /\ Goto(p, "bo_load")
  /\ UNCHANGED <<quotaVars, flagVars, tokens, usedRead, oldMax, req, last,
                 leaked, win>>
  /\ UNCHANGED originVars

NextSeq ==
  \/ \E p \in Procs : SeqReceive(p)
  \/ \E p \in Procs : SeqRelease(p)
  \/ \E p \in Procs : SeqInc(p)
  \/ \E p \in Procs : \E f \in Fracs : SeqBackoff(p, f)
  \/ \E p \in Procs : ReceiveLoadUsed(p)
  \/ \E p \in Procs : ReceiveLoadMax(p, "idle")
  \/ \E p \in Procs : ReceiveAdd(p)
  \/ \E p \in Procs : ReceiveGauge(p)
  \/ \E p \in Procs : ReleaseAdd(p)
  \/ \E p \in Procs : ReleaseGauge(p)
  \/ \E p \in Procs : IncAdd(p)
  \/ \E p \in Procs : IncGauge(p)
  \/ \E p \in Procs : BackoffLoad(p)
  \/ \E p \in Procs : BackoffCAS(p)
  \/ \E p \in Procs : BackoffGauge(p)

SpecSeq == InitQuota /\ [][NextSeq]_vars

-----------------------------------------------------------------------------
\* The adaptive gate under a sustained run of overload outcomes: every hook
\* that runs calls inflight.Backoff(0.75), no success raises the ceiling, and
\* the ceiling starts anywhere up to MaxCeiling.

\* cmd/proxy's main with -adaptive and a -quota up to MaxCeiling.
InitLower ==
  /\ quota \in 0..MaxCeiling
  /\ adaptive = TRUE
  /\ NewQuota(quota)
  /\ tokens = Burst * TicksPerSecond
  /\ pc = [p \in Procs |-> "idle"]
  /\ usedRead = [p \in Procs |-> 0]
  /\ oldMax = [p \in Procs |-> 0]
  /\ frac = [p \in Procs |-> 0]
  /\ cont = [p \in Procs |-> "idle"]
  /\ req = [p \in Procs |-> NewRequest]
  /\ last = NewRequest
  /\ started = 0
  /\ leaked = 0
  /\ win = NoWindow
  /\ hist = NoCalls
  /\ InitOrigin
  /\ OneOrigin

\* A hook that saw an overload outcome: inflight.Backoff(0.75)
OverloadBackoff(p) ==
  /\ pc[p] = "idle"
  /\ started < MaxLowers
  /\ started' = started + 1
  /\ hist' = [hist EXCEPT !.lowers[BackoffNum] = @ + 1]
  /\ frac' = [frac EXCEPT ![p] = BackoffNum]
  /\ cont' = [cont EXCEPT ![p] = "idle"]
  /\ Goto(p, "bo_load")
  /\ UNCHANGED <<quotaVars, flagVars, tokens, usedRead, oldMax, req, last,
                 leaked, win>>
  /\ UNCHANGED originVars

NextLower ==
  \/ \E p \in Procs : OverloadBackoff(p)
  \/ \E p \in Procs : BackoffLoad(p)
  \/ \E p \in Procs : BackoffCAS(p)
  \/ \E p \in Procs : BackoffGauge(p)

SpecLower == InitLower /\ [][NextLower]_vars

-----------------------------------------------------------------------------
\* The mutex-based Quota (cmd/client/main.go, lines 281-348): used and max
\* are float64 fields guarded by a sync.RWMutex. The lock has no variable of
\* its own: a caller holds it exactly while it is at one of the labels below.
\* quota and max hold the flag and the field in units of 1 / MutexScale, which
\* keeps every product p * max of a behaviour a whole number of units (the
\* float64 arithmetic is exact for these values).

MutexScale == FracDen ^ (MaxRequests + 1)

\* The -quota values explored (flag.Float64): the halves from 0 to MaxQuota.
MutexQuotas == {k * (MutexScale \div 2) : k \in 0..(2 * MaxQuota)}

ReadLockedAt == {"m_rread"}
WriteLockedAt == {"m_check", "m_gauge", "m_rel_dec", "m_inc_add", "m_bo_mul"}

\* q.mu.RLock() returns when no writer holds the lock, q.mu.Lock() when
\* nobody holds it.
CanRLock == \A q \in Procs : pc[q] \notin WriteLockedAt
CanLock == \A q \in Procs : pc[q] \notin (ReadLockedAt \cup WriteLockedAt)

\* q.used < q.max
MutexAvailable(u, m) == u * MutexScale < m

\* Mutant: under the write lock Receive increments without checking again.
MutexAvailableUnchecked(u, m) == TRUE

\* The second check, under the write lock: available = q.used < q.max
MutexAvailableLocked(u, m) == MutexAvailable(u, m)

\* main and NewQuota of the mutex-based proxy.
InitMutex ==
  /\ quota \in MutexQuotas
  /\ adaptive = FALSE
  /\ NewQuota(quota)
  /\ tokens = Burst * TicksPerSecond
  /\ pc = [p \in Procs |-> "idle"]
  /\ usedRead = [p \in Procs |-> 0]
  /\ oldMax = [p \in Procs |-> 0]
  /\ frac = [p \in Procs |-> 0]
  /\ cont = [p \in Procs |-> "idle"]
  /\ req = [p \in Procs |-> NewRequest]
  /\ last = NewRequest
  /\ started = 0
  /\ leaked = 0
  /\ win = NoWindow
  /\ hist = NoCalls
  /\ InitOrigin
  /\ OneOrigin

\* q.Receive(), by a caller that holds no slot.
MutexCallReceive(p) ==
  /\ pc[p] = "idle"
  /\ started < MaxRequests
  /\ started' = started + 1
  /\ cont' = [cont EXCEPT ![p] = "held"]
  /\ Goto(p, "m_rlock")
  /\ UNCHANGED <<quotaVars, flagVars, tokens, usedRead, oldMax, frac, req,
                 last, leaked, win, hist>>
  /\ UNCHANGED originVars

\* q.Release(), by a caller whose Receive returned true.
MutexCallRelease(p) ==
  /\ pc[p] = "held"
  /\ Goto(p, "m_rel_lock")
  /\ UNCHANGED <<quotaVars, flagVars, tokens, localVars, req, last, started,
                 leaked, win, hist>>
  /\ UNCHANGED originVars

\* q.Inc()
MutexCallInc(p) ==
  /\ pc[p] \in {"idle", "held"}
  /\ started < MaxRequests
  /\ started' = started + 1
  /\ hist' = [hist EXCEPT !.incs = @ + 1]
  /\ cont' = [cont EXCEPT ![p] = pc[p]]
  /\ Goto(p, "m_inc_lock")
  /\ UNCHANGED <<quotaVars, flagVars, tokens, usedRead, oldMax, frac, req,
                 last, leaked, win>>
  /\ UNCHANGED originVars

\* q.Backoff(0.75)
MutexCallBackoff(p) ==
  /\ pc[p] \in {"idle", "held"}
  /\ started < MaxRequests
  /\ started' = started + 1
  /\ hist' = [hist EXCEPT !.lowers[BackoffNum] = @ + 1]
  /\ frac' = [frac EXCEPT ![p] = BackoffNum]
  /\ cont' = [cont EXCEPT ![p] = pc[p]]
  /\ Goto(p, "m_bo_lock")
  /\ UNCHANGED <<quotaVars, flagVars, tokens, usedRead, oldMax, req, last,
                 leaked, win>>
  /\ UNCHANGED originVars

\* Receive: q.mu.RLock()
MutexReceiveRLock(p) ==
  /\ pc[p] = "m_rlock"
  /\ CanRLock
  /\ Goto(p, "m_rread")
  /\ UNCHANGED <<quotaVars, flagVars, tokens, localVars, req, last, started,
                 leaked, win, hist>>
  /\ UNCHANGED originVars

\* Receive: available := q.used < q.max; q.mu.RUnlock();
\* if !available { return false }
MutexReceiveRead(p) ==
  /\ pc[p] = "m_rread"
  /\ IF MutexAvailable(used, max)
       THEN /\ Goto(p, "m_lock")
            /\ UNCHANGED <<req, cont>>
       ELSE /\ Goto(p, "idle")
            /\ req' = [req EXCEPT ![p].ret = "denied"]
            /\ cont' = [cont EXCEPT ![p] = "idle"]
  /\ UNCHANGED <<quotaVars, flagVars, tokens, usedRead, oldMax, frac, last,
                 started, leaked, win, hist>>
  /\ UNCHANGED originVars

\* Receive: q.mu.Lock()
MutexReceiveLock(p) ==
  /\ pc[p] = "m_lock"
  /\ CanLock
  /\ Goto(p, "m_check")
  /\ UNCHANGED <<quotaVars, flagVars, tokens, localVars, req, last, started,
                 leaked, win, hist>>
  /\ UNCHANGED originVars

\* Receive: available = q.used < q.max; if available { q.used++ ... }, and
\* when not available q.mu.Unlock(); return available
MutexReceiveCheck(p) ==
  /\ pc[p] = "m_check"
  /\ IF MutexAvailableLocked(used, max)
       THEN /\ used' = used + 1
            /\ req' = [req EXCEPT ![p].acquires = @ + 1, ![p].ret = "granted"]
            /\ Goto(p, "m_gauge")
            /\ UNCHANGED cont
       ELSE /\ Goto(p, "idle")
            /\ req' = [req EXCEPT ![p].ret = "relocked"]
            /\ cont' = [cont EXCEPT ![p] = "idle"]
            /\ UNCHANGED used
  /\ UNCHANGED <<max, current, target, flagVars, tokens, usedRead, oldMax,
                 frac, last, started, leaked, win, hist>>
  /\ UNCHANGED originVars

\* Receive: q.current.Inc(); q.mu.Unlock(); return available
MutexReceiveGauge(p) ==
  /\ pc[p] = "m_gauge"
  /\ current' = current + 1
  /\ Return(p)
  /\ UNCHANGED <<used, max, target, flagVars, tokens, usedRead, oldMax, frac,
                 req, last, started, leaked, win, hist>>
  /\ UNCHANGED originVars

\* Release: q.mu.Lock()
MutexReleaseLock(p) ==
  /\ pc[p] = "m_rel_lock"
  /\ CanLock
  /\ Goto(p, "m_rel_dec")
  /\ UNCHANGED <<quotaVars, flagVars, tokens, localVars, req, last, started,
                 leaked, win, hist>>
  /\ UNCHANGED originVars

\* Release: q.used--; q.mu.Unlock()
MutexReleaseDec(p) ==
  /\ pc[p] = "m_rel_dec"
  /\ used' = used - 1
  /\ req' = [req EXCEPT ![p].releases = @ + 1]
  /\ Goto(p, "m_rel_gauge")
  /\ UNCHANGED <<max, current, target, flagVars, tokens, localVars, last,
                 started, leaked, win, hist>>
  /\ UNCHANGED originVars

\* Release: q.current.Dec(). Release is the last thing its caller does.
MutexReleaseGauge(p) ==
  /\ pc[p] = "m_rel_gauge"
  /\ current' = current - 1
  /\ Finish(p, req[p])
  /\ UNCHANGED <<used, max, target, flagVars, tokens, localVars, started,
                 leaked, win, hist>>
  /\ UNCHANGED originVars

\* Inc: q.mu.Lock()
MutexIncLock(p) ==
  /\ pc[p] = "m_inc_lock"
  /\ CanLock
  /\ Goto(p, "m_inc_add")
  /\ UNCHANGED <<quotaVars, flagVars, tokens, localVars, req, last, started,
                 leaked, win, hist>>
  /\ UNCHANGED originVars

\* Inc: q.max++; q.mu.Unlock()
MutexIncAdd(p) ==
  /\ pc[p] = "m_inc_add"
  /\ max' = max + MutexScale
  /\ Goto(p, "m_inc_gauge")
  /\ UNCHANGED <<used, current, target, flagVars, tokens, localVars, req,
                 last, started, leaked, win, hist>>
  /\ UNCHANGED originVars

\* Inc: q.target.Inc()
MutexIncGauge(p) ==
  /\ pc[p] = "m_inc_gauge"
  /\ target' = target + MutexScale
  /\ Return(p)
  /\ UNCHANGED <<used, max, current, flagVars, tokens, usedRead, oldMax, frac,
                 req, last, started, leaked, win, hist>>
  /\ UNCHANGED originVars

\* Backoff: q.mu.Lock()
MutexBackoffLock(p) ==
  /\ pc[p] = "m_bo_lock"
  /\ CanLock
  /\ Goto(p, "m_bo_mul")
  /\ UNCHANGED <<quotaVars, flagVars, tokens, localVars, req, last, started,
                 leaked, win, hist>>
  /\ UNCHANGED originVars

\* Backoff: q.max = p * float64(q.max); q.mu.Unlock(). There is no rounding.
MutexBackoffMul(p) ==
  /\ pc[p] = "m_bo_mul"
  /\ max' = (frac[p] * max) \div FracDen
  /\ Goto(p, "m_bo_gauge")
  /\ UNCHANGED <<used, current, target, flagVars, tokens, localVars, req,
                 last, started, leaked, win, hist>>
  /\ UNCHANGED originVars

\* Backoff: q.target.Set(q.max), which reads q.max without the lock: it
\* gets whatever value the field holds when this step is taken.
MutexBackoffGauge(p) ==
  /\ pc[p] = "m_bo_gauge"
  /\ target' = max
  /\ frac' = [frac EXCEPT ![p] = 0]
  /\ Return(p)
  /\ UNCHANGED <<used, max, current, flagVars, tokens, usedRead, oldMax, req,
                 last, started, leaked, win, hist>>
  /\ UNCHANGED originVars

NextMutex ==
  \/ \E p \in Procs : MutexCallReceive(p)
  \/ \E p \in Procs : MutexCallRelease(p)
  \/ \E p \in Procs : MutexCallInc(p)
  \/ \E p \in Procs : MutexCallBackoff(p)
  \/ \E p \in Procs : MutexReceiveRLock(p)
  \/ \E p \in Procs : MutexReceiveRead(p)
  \/ \E p \in Procs : MutexReceiveLock(p)
  \/ \E p \in Procs : MutexReceiveCheck(p)
  \/ \E p \in Procs : MutexReceiveGauge(p)
  \/ \E p \in Procs : MutexReleaseLock(p)
  \/ \E p \in Procs : MutexReleaseDec(p)
  \/ \E p \in Procs : MutexReleaseGauge(p)
  \/ \E p \in Procs : MutexIncLock(p)
  \/ \E p \in Procs : MutexIncAdd(p)
  \/ \E p \in Procs : MutexIncGauge(p)
  \/ \E p \in Procs : MutexBackoffLock(p)
  \/ \E p \in Procs : MutexBackoffMul(p)
  \/ \E p \in Procs : MutexBackoffGauge(p)

SpecMutex == InitMutex /\ [][NextMutex]_vars

-----------------------------------------------------------------------------
\* The origin: the jobs channel, its request handler and its workers.
\* A Go channel operation is atomic; a receive that finds the buffer empty
\* parks the goroutine on the channel, and a send hands its value to the
\* first parked receiver if there is one, before it looks at the buffer.

Workers == 1..workerNum

\* A worker is blocked in `range jobs`: a send is handed to it.
HasReceiver == Len(recvq) > 0

\* Mutant: the buffer takes one job more than its capacity.
HasRoomOffByOne == Len(jobs) <= queueSize

\* make(chan job, *queueSize): the buffer has room for a send.
HasRoom == Len(jobs) < queueSize

\* net/http starts a goroutine for each request, and the goroutines differ in
\* nothing but the request: the one that serves the next request is named by
\* the lowest number not in use.
Free(h) == hpc[h] = "idle" /\ \A g \in Handlers : g < h => hpc[g] # "idle"

\* http.HandleFunc("/", ...): a request arrives, the handler makes its job
\* and selects between the send on jobs and the default case.
Submit(h) ==
  /\ Free(h)
  /\ submitted < MaxJobs
  /\ submitted' = submitted + 1
  /\ LET j == submitted + 1
     IN  /\ sub' = [job |-> j, by |-> h, full |-> Len(jobs) = queueSize,
                    waiting |-> Len(recvq)]
         /\ IF HasReceiver
              THEN \* a worker is blocked in `range jobs`: it gets the job
                   /\ wjob' = [wjob EXCEPT ![Head(recvq)] = j]
                   /\ wpc' = [wpc EXCEPT ![Head(recvq)] = "work"]
                   /\ recvq' = Tail(recvq)
                   /\ hjob' = [hjob EXCEPT ![h] = j]
                   /\ hpc' = [hpc EXCEPT ![h] = "result"]
                   /\ status' = [status EXCEPT ![h] = 0]
                   /\ taken' = Append(taken, [job |-> j, left |-> Len(jobs)])
                   /\ UNCHANGED jobs
              ELSE IF HasRoom
                THEN \* room in the buffer
                     /\ jobs' = Append(jobs, j)
                     /\ hjob' = [hjob EXCEPT ![h] = j]
                     /\ hpc' = [hpc EXCEPT ![h] = "result"]
                     /\ status' = [status EXCEPT ![h] = 0]
                     /\ UNCHANGED <<recvq, wpc, wjob, taken>>
                ELSE \* default: status = http.StatusTooManyRequests
                     /\ status' = [status EXCEPT ![h] = StatusTooManyRequests]
                     /\ UNCHANGED <<jobs, recvq, wpc, wjob, hpc, hjob, taken>>
  /\ gone' = [gone EXCEPT ![h] = FALSE]
  /\ UNCHANGED <<workerNum, queueSize>>
  /\ UNCHANGED proxyVars

\* Mutant: the worker takes the job that was queued last, not first.
RangeLast(w) ==
  /\ wpc[w] = "range"
  /\ IF Len(jobs) > 0
       THEN /\ wjob' = [wjob EXCEPT ![w] = jobs[Len(jobs)]]
            /\ jobs' = SubSeq(jobs, 1, Len(jobs) - 1)
            /\ wpc' = [wpc EXCEPT ![w] = "work"]
            /\ taken' = Append(taken, [job |-> jobs[Len(jobs)],
                                        left |-> Len(jobs) - 1])
            /\ UNCHANGED recvq
       ELSE /\ recvq' = Append(recvq, w)
            /\ wpc' = [wpc EXCEPT ![w] = "parked"]
            /\ UNCHANGED <<jobs, wjob, taken>>
  /\ UNCHANGED <<workerNum, queueSize, hpc, hjob, status, submitted, sub,
                 gone>>
  /\ UNCHANGED proxyVars

\* Mutant: the worker reads the head of the buffer and leaves it there.
RangePeek(w) ==
  /\ wpc[w] = "range"
  /\ IF Len(jobs) > 0
       THEN /\ wjob' = [wjob EXCEPT ![w] = Head(jobs)]
            /\ wpc' = [wpc EXCEPT ![w] = "work"]
            /\ taken' = Append(taken, [job |-> Head(jobs), left |-> Len(jobs)])
            /\ UNCHANGED <<jobs, recvq>>
       ELSE /\ recvq' = Append(recvq, w)
            /\ wpc' = [wpc EXCEPT ![w] = "parked"]
            /\ UNCHANGED <<jobs, wjob, taken>>
  /\ UNCHANGED <<workerNum, queueSize, hpc, hjob, status, submitted, sub,
                 gone>>
  /\ UNCHANGED proxyVars

\* for j := range jobs: the worker takes the head of the buffer, or parks.
Range(w) ==
  /\ wpc[w] = "range"
  /\ IF Len(jobs) > 0
       THEN /\ wjob' = [wjob EXCEPT ![w] = Head(jobs)]
            /\ jobs' = Tail(jobs)
            /\ wpc' = [wpc EXCEPT ![w] = "work"]
            /\ taken' = Append(taken, [job |-> Head(jobs),
                                        left |-> Len(jobs) - 1])
            /\ UNCHANGED recvq
       ELSE /\ recvq' = Append(recvq, w)
            /\ wpc' = [wpc EXCEPT ![w] = "parked"]
            /\ UNCHANGED <<jobs, wjob, taken>>
  /\ UNCHANGED <<workerNum, queueSize, hpc, hjob, status, submitted, sub,
                 gone>>
  /\ UNCHANGED proxyVars

\* The handler that waits for job j, if it has got to <-j.result.
Waiter(j) == {h \in Handlers : hjob[h] = j /\ hpc[h] = "waiting"}

\* Mutant: the worker does not block on the result channel: if the handler
\* is not yet waiting the signal is dropped.
SendResultOrDrop(w) ==
  /\ wpc[w] = "work"
  /\ IF Waiter(wjob[w]) # {}
       THEN /\ hpc' = [h \in Handlers |->
                         IF h \in Waiter(wjob[w]) THEN "idle" ELSE hpc[h]]
            /\ hjob' = [h \in Handlers |->
                          IF h \in Waiter(wjob[w]) THEN 0 ELSE hjob[h]]
            /\ status' = [h \in Handlers |->
                            IF h \in Waiter(wjob[w]) THEN StatusOK ELSE status[h]]
       ELSE UNCHANGED <<hpc, hjob, status>>
  /\ wjob' = [wjob EXCEPT ![w] = 0]
  /\ wpc' = [wpc EXCEPT ![w] = "range"]
  /\ UNCHANGED <<workerNum, queueSize, jobs, recvq, submitted, sub, taken,
                 gone>>
  /\ UNCHANGED proxyVars

\* time.Sleep(...) is over; j.result <- struct{}{}: the send completes if
\* the handler is already blocked in <-j.result, and blocks otherwise.
SendResult(w) ==
  /\ wpc[w] = "work"
  /\ IF Waiter(wjob[w]) # {}
       THEN /\ hpc' = [h \in Handlers |->
                         IF h \in Waiter(wjob[w]) THEN "idle" ELSE hpc[h]]
            /\ hjob' = [h \in Handlers |->
                          IF h \in Waiter(wjob[w]) THEN 0 ELSE hjob[h]]
            /\ status' = [h \in Handlers |->
                            IF h \in Waiter(wjob[w]) THEN StatusOK ELSE status[h]]
            /\ wjob' = [wjob EXCEPT ![w] = 0]
            /\ wpc' = [wpc EXCEPT ![w] = "range"]
       ELSE /\ wpc' = [wpc EXCEPT ![w] = "sending"]
            /\ UNCHANGED <<wjob, hpc, hjob, status>>
  /\ UNCHANGED <<workerNum, queueSize, jobs, recvq, submitted, sub, taken,
                 gone>>
  /\ UNCHANGED proxyVars

\* The worker that is blocked sending job j's result.
Sender(j) == {w \in Workers : wjob[w] = j /\ wpc[w] = "sending"}

\* Mutant: the handler answers 200 without waiting for the job's result.
ReceiveResultNoWait(h) ==
  /\ hpc[h] = "result"
  /\ hpc' = [hpc EXCEPT ![h] = "idle"]
  /\ hjob' = [hjob EXCEPT ![h] = 0]
  /\ status' = [status EXCEPT ![h] = StatusOK]
  /\ UNCHANGED <<wpc, wjob>>
  /\ UNCHANGED <<workerNum, queueSize, jobs, recvq, submitted, sub, taken,
                 gone>>
  /\ UNCHANGED proxyVars

\* <-j.result; status = http.StatusOK: the receive completes if the worker
\* is already blocked in its send, and blocks otherwise.
ReceiveResult(h) ==
  /\ hpc[h] = "result"
  /\ IF Sender(hjob[h]) # {}
       THEN /\ wpc' = [w \in DOMAIN wpc |->
                         IF w \in Sender(hjob[h]) THEN "range" ELSE wpc[w]]
            /\ wjob' = [w \in DOMAIN wjob |->
                          IF w \in Sender(hjob[h]) THEN 0 ELSE wjob[w]]
            /\ hpc' = [hpc EXCEPT ![h] = "idle"]
            /\ hjob' = [hjob EXCEPT ![h] = 0]
            /\ status' = [status EXCEPT ![h] = StatusOK]
       ELSE /\ hpc' = [hpc EXCEPT ![h] = "waiting"]
            /\ UNCHANGED <<wpc, wjob, hjob, status>>
  /\ UNCHANGED <<workerNum, queueSize, jobs, recvq, submitted, sub, taken,
                 gone>>
  /\ UNCHANGED proxyVars

NextOrigin ==
  \/ \E h \in Handlers : Submit(h)
  \/ \E h \in Handlers : ReceiveResult(h)
  \/ \E w \in Workers : Range(w)
  \/ \E w \in Workers : SendResult(w)

SpecOrigin == InitWorkerPool /\ [][NextOrigin]_vars

\* The client's context.WithTimeout expires while its request is with the
\* origin: the client stops waiting. The origin's handler does not look at
\* r.Context(), so nothing in the origin changes.
CallerTimeout(h) ==
  /\ hjob[h] # 0
  /\ ~gone[h]
  /\ gone' = [gone EXCEPT ![h] = TRUE]
  /\ UNCHANGED <<workerNum, queueSize, jobs, recvq, wpc, wjob, hpc, hjob,
                 status, submitted, sub, taken>>
  /\ UNCHANGED proxyVars

NextOriginLive ==
  \/ \E h \in Handlers : Submit(h)
  \/ \E h \in Handlers : ReceiveResult(h)
  \/ \E h \in Handlers : CallerTimeout(h)
  \/ \E w \in Workers : Range(w)
  \/ \E w \in Workers : SendResult(w)

\* The Go scheduler runs every goroutine that can run: a worker that can
\* receive or send does, and a handler whose send on jobs succeeded goes on
\* to <-j.result. Requests need not keep arriving and clients need not time
\* out.
FairOrigin ==
  /\ \A w \in 1..MaxWorkers : WF_vars(Range(w)) /\ WF_vars(SendResult(w))
  /\ \A h \in Handlers : WF_vars(ReceiveResult(h))

SpecOriginLive == InitWorkerPool /\ [][NextOriginLive]_vars /\ FairOrigin

-----------------------------------------------------------------------------
\* Properties of the proxy (Spec), of the Quota type (SpecQuota) and of the
\* origin (SpecOrigin).

\* The handlers that hold a slot: past Receive's increment of used, and not
\* yet past Release's decrement.
HoldingLabels ==
  {"rcv_gauge", "forward", "inc_add", "inc_gauge", "bo_load", "bo_cas",
   "bo_gauge", "copy", "release"}
Holders == {p \in Procs : pc[p] \in HoldingLabels}

\* An overload outcome: a status other than 200, or a transport failure.
Overload(r) == r.outcome \in {"overload", "error"}

\* The request has touched neither the quota nor the limiter nor the origin.
NoEffect(r) ==
  /\ r.outcome = "none"
  /\ r.acquires = 0
  /\ r.releases = 0
  /\ r.lowers = 0
  /\ r.raises = 0
  /\ ~r.token

\* C1: with the ceiling constant at K = quota (the proxy without -adaptive)
\* and NumProcs handlers racing through Receive, used never exceeds
\* K + (NumProcs - 1).
C1_BoundedOvershoot == ~adaptive => used <= quota + (NumProcs - 1)

\* C1 witness: the bound is met, by handlers that all saw used < K.
C1_OvershootReached ==
  ~adaptive /\ quota >= 1 /\ NumProcs >= 2 /\ used = quota + (NumProcs - 1)

\* C2: used is the number of requests granted and not yet released (those in
\* flight, and those whose handler ended without Release); it is never
\* negative, and is 0 once every granted request has released.
C2_UsedCountsGrants ==
  /\ used = Cardinality(Holders) + leaked
  /\ used >= 0
  /\ (Holders = {} /\ leaked = 0) => used = 0

\* C2 witness: used is back at 0 after granted requests released, with the
\* ceiling moved by Inc or Backoff in between.
C2_BackToZero ==
  /\ used = 0
  /\ started >= 2
  /\ \A p \in Procs : pc[p] = "idle"
  /\ last.releases = 1
  /\ max # quota

\* The ceilings that i calls of Inc and, for each fraction f, lw[f] calls of
\* Backoff(f / FracDen) leave when applied to m one at a time, in any order.
RECURSIVE SeqResults(_, _, _)
SeqResults(m, i, lw) ==
  IF i = 0 /\ \A f \in Fracs : lw[f] = 0
    THEN {m}
    ELSE (IF i > 0 THEN SeqResults(m + 1, i - 1, lw) ELSE {})
         \cup UNION {SeqResults(CeilMul(f, m), i, [lw EXCEPT ![f] = @ - 1]) :
                       f \in {g \in Fracs : lw[g] > 0}}

\* No Inc or Backoff call has still to take effect.
NoAdjustPending == \A p \in Procs : pc[p] \notin {"inc_add", "bo_load", "bo_cas"}

\* C3: once the Inc and Backoff(p) calls made have all taken effect, the
\* ceiling is what those calls leave when applied one at a time in some
\* order: none is lost.
C3_NoLostUpdate ==
  NoAdjustPending => max \in SeqResults(quota, hist.incs, hist.lowers)

\* C3 witness: two Backoff(1/2) calls that raced (a compare-and-swap failed)
\* took 4 to 1, the two-fold application of ceil(p * previous).
C3_TwoLowersRaced ==
  /\ NoAdjustPending
  /\ \E p \in Procs : pc[p] = "bo_gauge" /\ hist.retried[p]
  /\ hist.incs = 0
  /\ hist.lowers = [f \in Fracs |-> IF f = 2 THEN 2 ELSE 0]
  /\ quota = 4
  /\ max = 1

\* C4: of the successes that consult the limiter within one of its windows
\* (the interval opened by a call that finds the bucket full), exactly one
\* is let through; with no Backoff and no raise left over from an earlier
\* window, the ceiling ends one above what it was when the window opened.
C4_OneRaisePerWindow ==
  win.succ >= 1 =>
    /\ win.grants = 1
    /\ win.clean =>
         /\ win.proc \in Procs
         /\ max = win.base + (IF win.applied THEN 1 ELSE 0)
         /\ win.applied \/ pc[win.proc] = "inc_add"

\* C4 witness: a burst of at least two successes in one window has raised
\* the ceiling by one.
C4_BurstRaisedOnce ==
  /\ adaptive
  /\ win.succ >= 2
  /\ win.age < TicksPerSecond
  /\ win.clean
  /\ win.applied
  /\ max = win.base + 1

\* The elements of a sequence.
Elems(q) == {q[i] : i \in 1..Len(q)}

\* The last send on jobs took the default case: its handler wrote 429 and
\* returned, and the job is neither in the buffer nor with a worker.
Rejected ==
  /\ sub.job # 0
  /\ status[sub.by] = StatusTooManyRequests
  /\ hpc[sub.by] = "idle"
  /\ hjob[sub.by] = 0
  /\ sub.job \notin Elems(jobs)
  /\ \A w \in Workers : wjob[w] # sub.job

\* C5, as claimed: a Submit made while the queue holds C jobs is rejected,
\* whatever the workers are doing.
C5_FullQueueRejects == (sub.job # 0 /\ sub.full) => Rejected

\* C5, amended: a Submit made while the queue holds C jobs and no worker is
\* blocked waiting for a job is rejected at once, the job neither enqueued
\* nor handed to a worker; with C >= 1 a full queue means no worker waits;
\* a Submit made while a worker waits (C = 0 included) is accepted.
C5_FullQueueBusyWorkersRejects ==
  /\ (sub.job # 0 /\ sub.full /\ sub.waiting = 0) => Rejected
  /\ (sub.job # 0 /\ sub.full /\ queueSize >= 1) => sub.waiting = 0
  /\ (sub.job # 0 /\ sub.waiting > 0) => ~Rejected

\* C5 witness: a Submit found the one-job buffer full and was rejected.
C5_RejectedAtCapacity ==
  /\ queueSize = 1
  /\ sub.full
  /\ sub.waiting = 0
  /\ Len(jobs) = 1
  /\ Rejected

\* C6: a granted request whose handler has ended has released exactly once.
C6_EveryGrantReleased == last.ret = "granted" => last.releases = 1

\* C7: a denied request is answered 429, is never forwarded, and touches
\* neither used nor the ceiling nor the limiter.
C7_DeniedIsRejected ==
  /\ last.ret = "denied" => (last.resp = StatusTooManyRequests /\ NoEffect(last))
  /\ \A p \in Procs :
       req[p].ret = "denied" => (pc[p] = "reject" /\ NoEffect(req[p]))

\* C7 witness: a request has been denied and answered, while another holds
\* the slot.
C7_Denied ==
  /\ last.ret = "denied"
  /\ last.resp = StatusTooManyRequests
  /\ used >= 1

\* C8: the ceiling is never negative.
C8_CeilingNonNegative == max >= 0

\* C8 witness: the ceiling was lowered to 0 while a slot was held.
C8_LoweredToZero == max = 0 /\ quota >= 1 /\ used >= 1

\* C9: with -adaptive, a request with an overload outcome goes straight to
\* Backoff(0.75), which takes effect once; it takes no token and calls no Inc.
C9_OverloadLowersOnce ==
  adaptive =>
    /\ Overload(last) => (last.lowers = 1 /\ last.raises = 0 /\ ~last.token)
    /\ \A p \in Procs :
         Overload(req[p]) =>
           /\ req[p].raises = 0
           /\ ~req[p].token
           /\ req[p].lowers = (IF pc[p] \in {"bo_load", "bo_cas"} THEN 0 ELSE 1)

\* C9 witness: an overload outcome has lowered the ceiling while the limiter
\* had no token to give.
C9_LoweredWhileThrottled ==
  /\ adaptive
  /\ tokens = 0
  /\ \E p \in Procs :
       /\ pc[p] = "bo_gauge"
       /\ Overload(req[p])
       /\ max < oldMax[p]

\* C10: without -adaptive the ceiling stays at its initial value.
C10_StaticCeiling == ~adaptive => max = quota

\* C10 witness: without -adaptive, a request with an overload outcome has
\* ended.
C10_OverloadWithoutAdaptive ==
  ~adaptive /\ Overload(last) /\ last.ret = "granted" /\ started >= 2

\* The three outcomes of a request that has ended, as far as they do not
\* depend on what 429 means: denied, forwarded and answered, forwarding failed.
Mirrored(r) ==
  /\ r.ret = "granted"
  /\ r.outcome \in {"ok", "overload"}
  /\ r.resp = r.bstatus
  /\ r.bstatus \in BackendStatuses
GatewayFailure(r) ==
  /\ r.ret = "granted"
  /\ r.outcome = "error"
  /\ r.resp = StatusBadGateway
DeniedOverload(r) ==
  /\ r.ret = "denied"
  /\ r.outcome = "none"
  /\ r.resp = StatusTooManyRequests

\* C11, as claimed: a request that has ended was answered 429 if and only if
\* Receive denied it, with the origin's own status if it was granted and
\* forwarded, and with 502 if it was granted and forwarding failed.
C11_OverloadIffDenied ==
  last.ret # "none" =>
    /\ DeniedOverload(last) \/ Mirrored(last) \/ GatewayFailure(last)
    /\ last.resp = StatusTooManyRequests <=> last.ret = "denied"

\* C11, amended: a request that has ended has exactly one of the three
\* outcomes: 429 if Receive denied it; the origin's own status, 429 included,
\* if it was granted and forwarded; 502 if it was granted and forwarding
\* failed. A 429 comes from a denial or from the origin, and a denial always
\* gives 429.
C11_ThreeOutcomes ==
  last.ret # "none" =>
    /\ DeniedOverload(last) \/ Mirrored(last) \/ GatewayFailure(last)
    /\ last.ret = "denied" => last.resp = StatusTooManyRequests
    /\ last.resp = StatusTooManyRequests =>
         (last.ret = "denied" \/ last.bstatus = StatusTooManyRequests)
    /\ last.resp = StatusBadGateway <=> last.outcome = "error"
    /\ last.resp = StatusOK <=>
         (last.ret = "granted" /\ last.bstatus = StatusOK)

\* C11 witness: a granted request was forwarded, the origin answered 429 and
\* the proxy passed that 429 on.
C11_GrantedAnswered429 ==
  /\ last.ret = "granted"
  /\ last.outcome = "overload"
  /\ last.bstatus = StatusTooManyRequests
  /\ last.resp = StatusTooManyRequests
  /\ last.releases = 1

\* The workers that have a job in hand: sleeping, or sending its result.
Executing == {w \in DOMAIN wjob : wjob[w] # 0}

\* The handlers whose job was accepted and is not finished.
Unfinished == {h \in Handlers : hjob[h] # 0}

\* C12: at most N = workerNum jobs are with workers and at most C = queueSize
\* are in the queue; every accepted job that is not finished is in one of the
\* two places, so there are never more than N + C of them.
C12_PoolBounded ==
  /\ Executing \subseteq Workers
  /\ Cardinality(Executing) <= workerNum
  /\ Len(jobs) <= queueSize
  /\ Cardinality(Unfinished) = Cardinality(Executing) + Len(jobs)
  /\ Cardinality(Unfinished) <= workerNum + queueSize

\* C12 witness: N + C jobs are unfinished, the queue is full, and the request
\* that came next was turned away.
C12_PoolFullAndRejecting ==
  /\ queueSize >= 1
  /\ Len(jobs) = queueSize
  /\ Cardinality(Executing) = workerNum
  /\ Cardinality(Unfinished) = workerNum + queueSize
  /\ Rejected

\* Jobs are numbered in the order of their sends on jobs, so of two accepted
\* jobs the one accepted first has the smaller number.
InOrder(q) == \A i, k \in 1..Len(q) : i < k => q[i] < q[k]

\* The numbers of the jobs received from jobs so far, in the order received.
TakenJobs == [i \in 1..Len(taken) |-> taken[i].job]

\* C13: workers receive the jobs in the order they were accepted: the jobs
\* received so far are in that order, the buffer is in that order, and every
\* job still in the buffer was accepted after every job already received.
C13_QueueIsFIFO ==
  /\ InOrder(TakenJobs)
  /\ InOrder(jobs)
  /\ \A i \in 1..Len(taken) : \A j \in Elems(jobs) : taken[i].job < j

\* C13 witness: a worker received a job that left another waiting in the
\* buffer, and the one left behind has been received since.
C13_TwoQueuedBothTaken ==
  \E i \in 1..Len(taken) :
    /\ taken[i].left >= 1
    /\ i < Len(taken)
    /\ taken[i].job < taken[i + 1].job

\* The jobs the pool holds: those in the buffer and those with workers.
InPool(q, wj) == (Elems(q) \cup {wj[w] : w \in DOMAIN wj}) \ {0}

\* The number of places job j is in: positions of the buffer, and workers.
Places(j) ==
  Cardinality({i \in 1..Len(jobs) : jobs[i] = j})
    + Cardinality({w \in DOMAIN wjob : wjob[w] = j})

\* What holds of the origin's handlers in every state: a handler has written
\* nothing, 200 or 429; while its job is accepted and unfinished it has
\* written nothing, and the job is in exactly one place and was received by
\* a worker at most once; a job that is in no handler's hands is nowhere.
AnswerState ==
  /\ \A h \in Handlers :
       /\ status[h] \in {0, StatusOK, StatusTooManyRequests}
       /\ (hpc[h] # "idle") <=> (hjob[h] # 0)
       /\ hjob[h] # 0 =>
            /\ status[h] = 0
            /\ Places(hjob[h]) = 1
            /\ Cardinality({i \in 1..Len(taken) : taken[i].job = hjob[h]}) =
                 Cardinality({w \in DOMAIN wjob : wjob[w] = hjob[h]})
  /\ InPool(jobs, wjob) = {hjob[h] : h \in Handlers} \ {0}

\* What holds of every step: a handler writes 200 only in the step in which
\* the one worker that has its job hands over the result and goes back to
\* range jobs; the handler of a send on jobs writes 429 exactly if the job
\* went neither into the buffer nor to a worker; a job enters the pool only
\* by its own send; a handler whose job was accepted never writes 429.
AnswerStep ==
  /\ \A h \in Handlers :
       (status[h] # StatusOK /\ status'[h] = StatusOK) =>
         /\ hjob[h] # 0
         /\ hpc'[h] = "idle"
         /\ \E w \in Workers :
              /\ wjob[w] = hjob[h]
              /\ wpc[w] \in {"work", "sending"}
              /\ wpc'[w] = "range"
              /\ wjob'[w] = 0
         /\ hjob[h] \notin InPool(jobs', wjob')
  /\ submitted' # submitted =>
       /\ sub'.job = submitted'
       /\ (status'[sub'.by] = StatusTooManyRequests)
            <=> (sub'.job \notin InPool(jobs', wjob'))
       /\ status'[sub'.by] # StatusTooManyRequests =>
            (hjob'[sub'.by] = sub'.job /\ status'[sub'.by] = 0)
  /\ \A j \in InPool(jobs', wjob') \ InPool(jobs, wjob) :
       submitted' # submitted /\ j = submitted'
  /\ \A h \in Handlers :
       hjob[h] # 0 => status'[h] # StatusTooManyRequests

\* C14: the origin answers a request with 200 only after its job was
\* accepted, was received by exactly one worker and that worker's send on
\* the job's result channel completed, or with 429 only when the job was not
\* accepted; a rejected job never reaches a worker and an accepted one is
\* never answered 429.
C14_OriginAnswers == []AnswerState /\ [][AnswerStep]_vars

\* C14 witness: one request has been answered 200 after its job completed,
\* and the request that came last was answered 429.
C14_AnsweredBothWays ==
  /\ Rejected
  /\ \E h \in Handlers :
       /\ h # sub.by
       /\ hpc[h] = "idle"
       /\ status[h] = StatusOK
       /\ \E i \in 1..Len(taken) : taken[i].job < sub.job

\* Job j was received by a worker and is finished: it is in no handler's
\* hands, not in the buffer and with no worker.
Completed(j) ==
  /\ \E i \in 1..Len(taken) : taken[i].job = j
  /\ j \notin InPool(jobs, wjob)
  /\ \A h \in Handlers : hjob[h] # j

\* A job leaves the buffer only into the hands of a worker that had none,
\* and leaves a worker only when its handler has got the signal.
NeverAborted ==
  /\ \A j \in Elems(jobs) \ Elems(jobs') :
       \E w \in Workers : wjob[w] = 0 /\ wjob'[w] = j
  /\ \A w \in Workers :
       (wjob[w] # 0 /\ wjob'[w] # wjob[w]) =>
         /\ wjob'[w] = 0
         /\ wpc'[w] = "range"
         /\ \E h \in Handlers :
              /\ hjob[h] = wjob[w]
              /\ hjob'[h] = 0
              /\ status'[h] = StatusOK

\* C15: every accepted job is eventually received by a worker, run and
\* signalled, whether or not the client of its request has stopped waiting;
\* no job is aborted or taken out of the queue; and the worker that ran it
\* goes back to range jobs.
C15_AcceptedJobsComplete ==
  /\ \A j \in 1..MaxJobs : (j \in InPool(jobs, wjob)) ~> Completed(j)
  /\ [][NeverAborted]_vars

\* C15 witness: a job that waited in the buffer was completed and signalled
\* after the client of its request had stopped waiting.
C15_CompletedForGoneCaller ==
  \E h \in Handlers :
    /\ gone[h]
    /\ hpc[h] = "idle"
    /\ status[h] = StatusOK
    /\ \E i \in 1..Len(taken) : taken[i].left >= 1 /\ Completed(taken[i].job)

\* Caller p is in Backoff's loop: before a load, or between the load and the
\* compare-and-swap.
InLoop(p) == pc[p] \in {"bo_load", "bo_cas"}

\* A compare-and-swap that is going to fail, or fails in this step, follows
\* another caller's write to max made since the load.
FailureMeansProgress ==
  \A p \in Procs : (pc[p] = "bo_cas" /\ max # oldMax[p]) => hist.stale[p]

\* C16: with the finitely many Inc and Backoff calls of a behaviour running
\* concurrently and every caller scheduled, each Backoff gets out of its
\* load, compute, compare-and-swap loop with its swap made; and a swap fails
\* only after another caller's update of max succeeded since the load.
C16_BackoffTerminates ==
  /\ \A p \in Procs : InLoop(p) ~> (pc[p] = "bo_gauge")
  /\ []FailureMeansProgress

\* C16 witness: a Backoff whose compare-and-swap failed because an Inc came
\* between its load and its swap has loaded again and made its swap.
C16_RetriedThenSwapped ==
  /\ hist.incs = 1
  /\ \E p \in Procs : /\ pc[p] = "bo_gauge"
                       /\ hist.retried[p]
                       /\ max = CeilMul(frac[p], oldMax[p])
  /\ \E f \in Fracs : f # FracDen /\ hist.lowers[f] = 1

\* Caller p's Receive returns true, or false, in this step.
ReturnsGranted(p) == pc[p] = "rcv_gauge" /\ pc'[p] = "held"
ReturnsDenied(p) == pc[p] = "rcv_max" /\ pc'[p] = "idle"

\* C17: a Receive that no other quota operation overlaps returns true, with
\* used one above what it was at the call, only if used < max at the call,
\* and returns false, with used as it was at the call, only if used >= max
\* at the call; so after a Backoff that leaves max <= used, every Receive is
\* denied for as long as used >= max.
C17_SequentialReceive ==
  [][\A p \in Procs :
       /\ ReturnsGranted(p) =>
            /\ hist.call.proc = p
            /\ hist.call.used < hist.call.max
            /\ used' = hist.call.used + 1
            /\ req'[p].ret = "granted"
       /\ ReturnsDenied(p) =>
            /\ hist.call.proc = p
            /\ hist.call.used >= hist.call.max
            /\ used' = hist.call.used
            /\ req'[p].ret = "denied"
       /\ (pc[p] = "rcv_max" /\ pc'[p] # pc[p]) =>
            (ReturnsDenied(p) <=> ~(hist.call.used < hist.call.max))]_vars

\* C17 witness: after one Receive was granted and a Backoff took the ceiling
\* down to used or below, the next Receive has been denied with used as it
\* was.
C17_DeniedAfterLower ==
  \E p \in Procs :
    /\ pc[p] = "idle"
    /\ req[p].ret = "denied"
    /\ hist.call.proc = p
    /\ hist.call.used >= 1
    /\ hist.call.max < quota
    /\ hist.call.max <= hist.call.used
    /\ used = hist.call.used
    /\ max = hist.call.max

\* The handler is inside Inc or Backoff.
AdjustLabels == {"inc_add", "inc_gauge", "bo_load", "bo_cas", "bo_gauge"}

\* C18: a handler is inside Inc or Backoff only while its request holds its
\* slot (acquired, not released, counted in used); it gets to Release only
\* with the outcome known; and once it has released it adjusts nothing more.
C18_AdjustBeforeRelease ==
  \A p \in Procs :
    /\ pc[p] \in AdjustLabels =>
         /\ p \in Holders
         /\ req[p].acquires = 1
         /\ req[p].releases = 0
         /\ req[p].outcome # "none"
         /\ used >= 1
    /\ pc[p] \in {"release", "rel_gauge"} => req[p].outcome # "none"
    /\ req[p].releases >= 1 => pc[p] = "rel_gauge"

\* C18 witness: a request's success has raised the ceiling while the request
\* still holds its slot, and another request has lowered it before.
C18_RaisedWhileHolding ==
  \E p \in Procs :
    /\ pc[p] = "inc_gauge"
    /\ req[p].raises = 1
    /\ req[p].releases = 0
    /\ used >= 1
    /\ last.lowers = 1
    /\ last.releases = 1

\* The callers whose Receive has added to used and whose Release has not yet
\* taken off it.
Granted == {p \in Procs : req[p].acquires > req[p].releases}

\* used counts the granted callers.
UsedIsGranted == used = Cardinality(Granted)

\* The handler is inside Receive or Release.
SlotLabels == {"rcv_used", "rcv_max", "rcv_add", "rcv_gauge", "release",
               "rel_gauge"}

\* A step of Receive or Release leaves max alone; a step of Inc or Backoff
\* leaves used and the granted callers alone; Release takes one off used
\* wherever the ceiling is.
DisjointStep ==
  \A p \in Procs :
    /\ (pc[p] \in SlotLabels /\ pc'[p] # pc[p]) => max' = max
    /\ (pc[p] \in AdjustLabels /\ pc'[p] # pc[p]) =>
         (used' = used /\ Granted' = Granted)
    /\ (pc[p] = "release" /\ pc'[p] # pc[p]) =>
         (used' = used - 1 /\ Granted' = Granted \ {p})

\* C19: Receive and Release never change max and Inc and Backoff never
\* change used; used counts the granted callers wherever the ceiling is, so
\* a ceiling moved below used revokes nobody and every later Release still
\* takes its one off used.
C19_DisjointState ==
  /\ []UsedIsGranted
  /\ [][DisjointStep]_vars

\* C19 witness: a Backoff took the ceiling below used, and a caller granted
\* before has since made its Release's decrement.
C19_ReleasedBelowCeiling ==
  /\ max < quota
  /\ \E p \in Procs :
       /\ pc[p] = "rel_gauge"
       /\ req[p].releases = 1
       /\ max <= used

\* The Backoff and Inc calls handler p has made for its request so far:
\* those that took effect and the one in progress.
LowerCalls(p) ==
  req[p].lowers + (IF pc[p] \in {"bo_load", "bo_cas"} THEN 1 ELSE 0)
RaiseCalls(p) == req[p].raises + (IF pc[p] = "inc_add" THEN 1 ELSE 0)

\* C20: a request has one outcome, set by the response hook (ok, overload)
\* or by the error hook (error), and causes at most one call of Inc or
\* Backoff: never both, never two of either. With -adaptive it calls
\* Backoff exactly if its outcome is an overload, so there are as many
\* Backoff calls as overload outcomes; an Inc comes only from a success that
\* took the limiter's token; without -adaptive there is no call at all.
C20_OneAdjustmentPerRequest ==
  /\ \A p \in Procs :
       /\ LowerCalls(p) + RaiseCalls(p) <= 1
       /\ adaptive => (LowerCalls(p) = 1 <=> Overload(req[p]))
       /\ RaiseCalls(p) = 1 => (req[p].outcome = "ok" /\ req[p].token)
       /\ ~adaptive => LowerCalls(p) + RaiseCalls(p) = 0
       /\ req[p].outcome # "none" => req[p].ret = "granted"
  /\ last.lowers + last.raises <= 1
  /\ adaptive => (last.lowers = 1 <=> Overload(last))
  /\ last.raises = 1 => (last.outcome = "ok" /\ last.token)
  /\ ~adaptive => last.lowers + last.raises = 0

\* C20 witness: one request ended having raised the ceiling once and lowered
\* nothing, and another, whose forwarding failed, has lowered it once and
\* raised nothing.
C20_OneRaiseOneLower ==
  /\ last.outcome = "ok"
  /\ last.raises = 1
  /\ last.lowers = 0
  /\ \E p \in Procs :
       /\ req[p].outcome = "error"
       /\ pc[p] = "release"
       /\ req[p].lowers = 1
       /\ req[p].raises = 0

-----------------------------------------------------------------------------
\* Backoff(0.75) applied k times to a ceiling n, one call after the other.
RECURSIVE LowerTimes(_, _)
LowerTimes(n, k) ==
  IF k = 0 THEN n ELSE CeilMul(BackoffNum, LowerTimes(n, k - 1))

\* The number of Backoff(0.75) calls whose swap has been made.
LowersApplied ==
  hist.lowers[BackoffNum]
    - Cardinality({p \in Procs : pc[p] \in {"bo_load", "bo_cas"}})

\* The ceiling is what the swaps made so far leave of the initial one, never
\* above it and never below the smaller of it and 3, and is at that value once
\* as many swaps were made as there are whole numbers between the two.
LoweredState ==
  /\ max = LowerTimes(quota, LowersApplied)
  /\ max <= quota
  /\ max >= Min(quota, 3)
  /\ LowersApplied >= quota - 3 => max = Min(quota, 3)

\* A step never raises the ceiling, leaves a ceiling of at most 3 as it is,
\* and a swap lowers a ceiling of 4 or more.
LoweredStep ==
  /\ max' <= max
  /\ max <= 3 => max' = max
  /\ (max >= 4 /\ LowersApplied' # LowersApplied) => max' < max

\* C21: under a run of overload outcomes with no raise, repeated
\* Backoff(0.75) from a ceiling n never increases the ceiling and stops at
\* min(n, 3): a ceiling of 1, 2 or 3 (or 0) is left unchanged, a larger one
\* comes down to 3 and no further.
C21_LowerStopsAtThree == []LoweredState /\ [][LoweredStep]_vars

\* C21 witness: from the largest initial ceiling, every Backoff(0.75) of the
\* run has returned, the ceiling is 3 and the last call found it at 3 already.
C21_LoweredToThreeAndStayed ==
  /\ quota = MaxCeiling
  /\ max = 3
  /\ hist.lowers[BackoffNum] = MaxLowers
  /\ LowerTimes(quota, MaxLowers - 1) = 3
  /\ \A p \in Procs : pc[p] = "idle"

-----------------------------------------------------------------------------
\* The gate is shut: used has reached the ceiling and no handler is past
\* Receive's comparison, or about to pass it, so none holds a slot it could
\* release and none is on its way to a hook that could raise the ceiling.
GateShut ==
  /\ used >= max
  /\ \A p \in Procs :
       \/ pc[p] \in {"idle", "rcv_used", "reject"}
       \/ pc[p] = "rcv_max" /\ usedRead[p] >= max

\* A shut gate stays shut: no step moves used or the ceiling, and a request
\* that ends was denied.
ShutStaysShut ==
  GateShut =>
    /\ GateShut'
    /\ used' = used
    /\ max' = max
    /\ last' # last => last'.ret = "denied"

\* With an initial ceiling of 1 or more the ceiling stays 1 or more; a
\* Receive that loads used = 0 finds it below the ceiling; a gate built with
\* ceiling 0 is shut from the start; and any other gate is shut only by
\* slots whose handlers ended without Release.
ShutOnlyByLeak ==
  /\ quota >= 1 => max >= 1
  /\ quota >= 1 =>
       \A p \in Procs : (pc[p] = "rcv_max" /\ usedRead[p] = 0) =>
                          Available(usedRead[p], max)
  /\ quota = 0 => GateShut
  /\ (GateShut /\ quota >= 1) => (leaked >= max /\ used = leaked)

\* C22, as claimed: the adaptive gate with an initial ceiling of 1 or more
\* keeps its ceiling at 1 or more and never gets into a state from which it
\* denies every request forever.
C22_NoLockout == (adaptive /\ quota >= 1) => (max >= 1 /\ ~GateShut)

-----------------------------------------------------------------------------
\* With no operation in progress the in-flight gauge equals used: every
\* add to used is followed by the same add to the gauge.
CurrentTracksUsed == Quiet => current = used

\* Until the first Backoff the target gauge, which NewQuota leaves at 0,
\* counts the Inc calls: it is the ceiling less the initial ceiling.
TargetCountsIncs ==
  (Quiet /\ \A f \in Fracs : hist.lowers[f] = 0) => target = max - quota

\* Two Backoff(1/2) calls from 4 have both returned, leaving the ceiling at
\* 1, and the gauge holds 2: the call that swapped first set the gauge last.
TargetSetOutOfOrder ==
  /\ Quiet
  /\ quota = 4
  /\ hist.incs = 0
  /\ hist.lowers = [f \in Fracs |-> IF f = 2 THEN 2 ELSE 0]
  /\ max = 1
  /\ target = 2

\* C23, as claimed: whenever no quota operation is in progress the in-flight
\* gauge equals used and the target gauge equals the ceiling.
C23_GaugesTrackQuota == Quiet => (current = used /\ target = max)

-----------------------------------------------------------------------------
\* No Inc and no Backoff has been called: the ceiling is the one NewQuota set.
CeilingConstant == hist.incs = 0 /\ \A f \in Fracs : hist.lowers[f] = 0

\* The ceiling is a whole number.
WholeCeiling == max % MutexScale = 0

\* The step is a grant: used goes up by one.
GrantStep == used' = used + 1

\* With the ceiling as NewQuota set it, used is never above it.
UsedWithinCeiling == CeilingConstant => used * MutexScale <= max

\* A grant is made with used below the ceiling and leaves it no higher than
\* the ceiling.
GrantWithinCeiling ==
  GrantStep => (MutexAvailable(used, max) /\ used' * MutexScale <= max)

\* C24, as claimed: every grant of the mutex-based Quota happens in a state
\* with used < max, and with the ceiling held constant at K used never
\* exceeds K, whatever the number of concurrent callers.
C24_NoOvershoot == []UsedWithinCeiling /\ [][GrantWithinCeiling]_vars

\* With the ceiling as NewQuota set it, used stays less than one above it,
\* and is never above it when it is a whole number.
UsedBelowNextWhole ==
  /\ used >= 0
  /\ CeilingConstant =>
       /\ max = quota
       /\ used * MutexScale < max + MutexScale
       /\ WholeCeiling => used * MutexScale <= max

\* A grant is made under the write lock with used below the ceiling, which
\* the step leaves alone: used ends less than one above the ceiling, and no
\* higher than a ceiling that is a whole number.
GrantBelowNextWhole ==
  GrantStep =>
    /\ \E p \in Procs : pc[p] = "m_check" /\ pc'[p] = "m_gauge"
    /\ MutexAvailable(used, max)
    /\ max' = max
    /\ used' * MutexScale < max + MutexScale
    /\ WholeCeiling => used' * MutexScale <= max

\* C24, amended: every grant happens under the write lock in a state with
\* used < max; with the ceiling held constant at K used never exceeds K
\* rounded up to a whole number (used < K + 1), which is K itself when K is
\* whole, whatever the number of concurrent callers.
C24_NoOvershootPastNextWhole ==
  []UsedBelowNextWhole /\ [][GrantBelowNextWhole]_vars

\* C24 witness: with the ceiling constant at 1, one caller holds the slot
\* and another, which had passed the first check, was turned away by the
\* second check under the write lock.
C24_DeniedUnderLock ==
  /\ CeilingConstant
  /\ quota = MutexScale
  /\ used = 1
  /\ \E p \in Procs : pc[p] = "held"
  /\ \E p \in Procs : pc[p] = "idle" /\ req[p].ret = "relocked"

====
